---------------------------- MODULE Spec2Model ----------------------------
(***************************************************************************)
(* Model of the proctoring session of protorAI-Client:                     *)
(*   - the useProctoring hook (src/src/hooks/useProctoring.ts): media      *)
(*     permission supervision, fullscreen enforcement, tab-switch          *)
(*     detection, the violation counters and log, the frame capture and    *)
(*     upload pipeline;                                                    *)
(*   - the quiz flow's submit handler (src/src/pages/Quiz.tsx), which      *)
(*     gates submission on the violation count and the permission flags.   *)
(*                                                                         *)
(* React semantics that the code relies on are part of the model:          *)
(*   - `state` holds the latest value of every useState cell, that is the  *)
(*     value after all dispatched updates (functional updaters read it);   *)
(*   - `rendered` holds the values of the last committed render, which is  *)
(*     what every closure created by that render reads (event handlers     *)
(*     registered by effects, handleSubmit, the startMedia callback);      *)
(*   - updates dispatched from discrete events (click, fullscreenchange)   *)
(*     are rendered synchronously, so those actions end with Commit;       *)
(*     updates dispatched from timers, promise continuations and           *)
(*     visibilitychange are rendered later by the Render action.           *)
(*                                                                         *)
(* The user clicks at human pace: a click reaches a page on which React    *)
(* has rendered every update dispatched before (React renders within the   *)
(* same macrotask turn or the next). Platform signals (timers, promises,   *)
(* track endings, visibility and fullscreen changes) may arrive while a    *)
(* render is still pending.                                                *)
(***************************************************************************)
EXTENDS Integers, Sequences, FiniteSets

\* ------------------------------------------------------------------ bounds
\* Violations recorded in one session.
MaxViolations == 4
\* getUserMedia requests issued in one session (mount plus user retries).
MaxStreams == 2
\* Frames handed to sendImageToBackend in one session.
MaxFrames == 1
\* Calls of exportViolationLog in one session.
MaxExports == 2
\* Questions of the quiz (quizData.parsedText.length).
NumQuestions == 2

\* ------------------------------------------------------- program constants
\* Quiz.tsx handleSubmit: if (totalViolations >= 3)
ViolationLimit == 3
\* useProctoring.ts sendImageToBackend: if (retryCount < 2)
MaxRetries == 2

\* useProctoring.ts line 54: the initializer of the sessionId cell builds the
\* id from the clock and a random number; the ids two sessions can get.
SessionIds == {"session-1", "session-2"}

VARIABLES
    state,            \* the hook's useState cells (ProctoringState), latest values
    isSubmitted,      \* the quiz flow's isSubmitted cell, latest value
    rendered,         \* the values the last committed render saw
    mounted,          \* the Proctor mount effect has run
    consumer,         \* how the consumer renders the <video> element
    apiSupported,     \* navigator.mediaDevices.getUserMedia exists
    streams,          \* every MediaStream acquired: liveness of its tracks
    streamRef,        \* streamRef.current: index into streams, 0 for null
    polls,            \* every setInterval(validateTracks): active, captured isSubmitted
    intervalRef,      \* intervalRef.current: index into polls, 0 for null
    mediaRequests,    \* getUserMedia promises not yet settled
    fullscreenElement,\* document.fullscreenElement !== null
    fsPending,        \* a requestFullscreen() promise is not yet settled
    video,            \* the preview element: mounted, srcObject, loadeddata fired, readyState = 4
    capture,          \* the capture effect: listener, hasStartedCapture, interval
    frames,           \* every frame handed to sendImageToBackend
    notices,          \* the notice each violation write emitted, in write order
    submitToast,      \* the toast handleSubmit showed in the step just taken
    report,           \* localStorage['violation-log-' + sessionId]: the last report
    exportCount,      \* the number of reports written so far
    currentQuestionIndex, \* the currentQuestionIndex option, latest value
    sessionId,        \* the hook's sessionId cell
    suppressed,       \* the event whose default action the step just taken prevented
    captureWarning    \* the warning the capture tick just taken logged

vars == <<state, isSubmitted, rendered, mounted, consumer, apiSupported,
          streams, streamRef, polls, intervalRef, mediaRequests, fullscreenElement,
          fsPending, video, capture, frames, notices, submitToast, report,
          exportCount, currentQuestionIndex, sessionId, suppressed,
          captureWarning>>

\* The current values of all variables as one record, so that the handlers
\* below are functions from world to world and compose as the code calls them.
\* A step starts with no toast shown and no default action prevented.
World ==
    [state |-> state, isSubmitted |-> isSubmitted,
     rendered |-> rendered, mounted |-> mounted, consumer |-> consumer,
     apiSupported |-> apiSupported, streams |-> streams, streamRef |-> streamRef,
     polls |-> polls, intervalRef |-> intervalRef, mediaRequests |-> mediaRequests,
     fullscreenElement |-> fullscreenElement, fsPending |-> fsPending,
     video |-> video, capture |-> capture, frames |-> frames,
     notices |-> notices, submitToast |-> "none", report |-> report,
     exportCount |-> exportCount, currentQuestionIndex |-> currentQuestionIndex,
     sessionId |-> sessionId, suppressed |-> "none", captureWarning |-> "none"]

Become(w) ==
    /\ state' = w.state
    /\ isSubmitted' = w.isSubmitted
    /\ rendered' = w.rendered
    /\ mounted' = w.mounted
    /\ consumer' = w.consumer
    /\ apiSupported' = w.apiSupported
    /\ streams' = w.streams
    /\ streamRef' = w.streamRef
    /\ polls' = w.polls
    /\ intervalRef' = w.intervalRef
    /\ mediaRequests' = w.mediaRequests
    /\ fullscreenElement' = w.fullscreenElement
    /\ fsPending' = w.fsPending
    /\ video' = w.video
    /\ capture' = w.capture
    /\ frames' = w.frames
    /\ notices' = w.notices
    /\ submitToast' = w.submitToast
    /\ report' = w.report
    /\ exportCount' = w.exportCount
    /\ currentQuestionIndex' = w.currentQuestionIndex
    /\ sessionId' = w.sessionId
    /\ suppressed' = w.suppressed
    /\ captureWarning' = w.captureWarning

\* --------------------------------------------------------- the hook state
\* useProctoring.ts lines 44-55: the initial value of every useState cell.
InitialState ==
    [permissionsGranted |-> FALSE, permissionsLoading |-> TRUE,
     showPermissionWarning |-> FALSE, permissionViolated |-> FALSE,
     browserSupported |-> TRUE, tabSwitchCount |-> 0, fullscreenExitCount |-> 0,
     isFullscreen |-> FALSE, violationLog |-> <<>>, showFullscreenWarning |-> FALSE,
     imageCaptureFailures |-> 0]

\* useProctoring.ts line 66.
totalViolations(s) == s.tabSwitchCount + s.fullscreenExitCount

\* What a render hands to the closures it creates.
Snapshot(w) ==
    [permissionsGranted |-> w.state.permissionsGranted,
     permissionsLoading |-> w.state.permissionsLoading,
     showPermissionWarning |-> w.state.showPermissionWarning,
     permissionViolated |-> w.state.permissionViolated,
     browserSupported |-> w.state.browserSupported,
     showFullscreenWarning |-> w.state.showFullscreenWarning,
     tabSwitchCount |-> w.state.tabSwitchCount,
     fullscreenExitCount |-> w.state.fullscreenExitCount,
     violationLog |-> w.state.violationLog,
     isSubmitted |-> w.isSubmitted,
     currentQuestionIndex |-> w.currentQuestionIndex]

\* Proctor.tsx lines 37-59: the <video> element is rendered only when
\* permissionsLoading is false. A consumer that always renders it is the other
\* way of using the refs the hook returns.
VideoRendered(w) ==
    IF w.consumer = "Proctor" THEN ~w.state.permissionsLoading ELSE TRUE


\* ------------------------------------------------------------- teardown
\* MediaStreamTrack.stop() on every track of a stream.
StopTracks(s) == [video |-> FALSE, audio |-> FALSE]

\* cleanupMedia without streamRef.current = null: the tracks are stopped, the
\* ref keeps the stream.
cleanupMediaKeepsRef(w) ==
    LET w1 == IF w.intervalRef /= 0
              THEN [w EXCEPT !.polls[w.intervalRef].active = FALSE]
              ELSE w
        w2 == [w1 EXCEPT !.capture.active = FALSE]
    IN  IF w2.streamRef /= 0
        THEN [w2 EXCEPT !.streams[w2.streamRef] = StopTracks(@)]
        ELSE w2

\* useProctoring.ts lines 68-75. clearInterval is given the handle the ref
\* holds; the refs of the two intervals are not reset, the stream ref is.
cleanupMedia(w) ==
    LET w1 == IF w.intervalRef /= 0
              THEN [w EXCEPT !.polls[w.intervalRef].active = FALSE]
              ELSE w
        w2 == [w1 EXCEPT !.capture.active = FALSE]
    IN  IF w2.streamRef /= 0
        THEN [w2 EXCEPT !.streams[w2.streamRef] = StopTracks(@), !.streamRef = 0]
        ELSE w2

\* ------------------------------------------------- media permission monitor
\* validateTracks with the flag following the tracks: a poll that finds both
\* tracks live clears permissionViolated.
validateTracksClearing(w, sub) ==
    IF w.streamRef = 0
    THEN [w EXCEPT !.state.permissionsGranted = FALSE,
                   !.state.showPermissionWarning = TRUE,
                   !.state.permissionViolated = ~sub]
    ELSE LET bothEnabled == w.streams[w.streamRef].video /\ w.streams[w.streamRef].audio
         IN  [w EXCEPT !.state.permissionsGranted = bothEnabled,
                       !.state.showPermissionWarning = ~bothEnabled,
                       !.state.permissionViolated = ~bothEnabled /\ ~sub]

\* validateTracks without its setShowPermissionWarning calls: the poll
\* withdraws the permission and leaves the warning flag as it is.
validateTracksSilent(w, sub) ==
    LET bothEnabled == /\ w.streamRef /= 0
                       /\ w.streams[w.streamRef].video
                       /\ w.streams[w.streamRef].audio
    IN  [w EXCEPT !.state.permissionsGranted = bothEnabled,
                  !.state.permissionViolated =
                      IF ~bothEnabled /\ ~sub THEN TRUE ELSE @]

\* validateTracks with an automatic retry: a tick that finds the stream gone
\* or a track dead requests the devices again.
validateTracksAutoRetry(w, sub) ==
    LET bothEnabled == /\ w.streamRef /= 0
                       /\ w.streams[w.streamRef].video
                       /\ w.streams[w.streamRef].audio
        w1 == [w EXCEPT !.state.permissionsGranted = bothEnabled,
                        !.state.showPermissionWarning = ~bothEnabled,
                        !.state.permissionViolated =
                            IF ~bothEnabled /\ ~sub THEN TRUE ELSE @]
    IN  IF bothEnabled
        THEN w1
        ELSE [w1 EXCEPT !.state.permissionsLoading = TRUE,
                        !.mediaRequests = Append(@, [isSubmitted |-> sub])]

\* useProctoring.ts lines 195-216. sub is the isSubmitted the enclosing
\* startMedia call captured. A stream's video (audio) field says whether some
\* video (audio) track is enabled and live.
validateTracks(w, sub) ==
    IF w.streamRef = 0
    THEN [w EXCEPT !.state.permissionsGranted = FALSE,
                   !.state.showPermissionWarning = TRUE,
                   !.state.permissionViolated = IF ~sub THEN TRUE ELSE @]
    ELSE LET videoEnabled == w.streams[w.streamRef].video
             audioEnabled == w.streams[w.streamRef].audio
             bothEnabled == videoEnabled /\ audioEnabled
         IN  [w EXCEPT !.state.permissionsGranted = bothEnabled,
                       !.state.showPermissionWarning = ~bothEnabled,
                       !.state.permissionViolated =
                           IF ~bothEnabled /\ ~sub THEN TRUE ELSE @]

\* startMedia without the test for the capture-device API: the request is
\* issued on every platform.
startMediaUnchecked(w, sub) ==
    [w EXCEPT !.state.permissionsLoading = TRUE,
              !.mediaRequests = Append(@, [isSubmitted |-> sub])]

\* useProctoring.ts lines 170-185: startMedia up to the await.
startMedia(w, sub) ==
    LET w1 == [w EXCEPT !.state.permissionsLoading = TRUE]
    IN  IF ~w.apiSupported
        THEN [w1 EXCEPT !.state.browserSupported = FALSE,
                        !.state.showPermissionWarning = TRUE,
                        !.state.permissionsGranted = FALSE,
                        !.state.permissionsLoading = FALSE]
        ELSE [w1 EXCEPT !.mediaRequests = Append(@, [isSubmitted |-> sub])]

\* useProctoring.ts lines 187-219: the continuation after getUserMedia
\* resolved with a new stream, both of whose tracks are live.
startMediaResolved(w, req) ==
    LET n == Len(w.streams) + 1
        w1 == [w EXCEPT !.streams = Append(@, [video |-> TRUE, audio |-> TRUE]),
                        !.streamRef = n,
                        !.video = IF @.mounted
                                  THEN [@ EXCEPT !.src = n, !.loaded = FALSE,
                                                 !.ready = FALSE]
                                  ELSE @,
                        !.state.permissionsGranted = TRUE,
                        !.state.showPermissionWarning = FALSE,
                        !.state.permissionsLoading = FALSE]
        w2 == validateTracks(w1, req.isSubmitted)
    IN  [w2 EXCEPT !.polls = Append(@, [active |-> TRUE, isSubmitted |-> req.isSubmitted]),
                   !.intervalRef = Len(w.polls) + 1]

\* startMediaRejected without setPermissionViolated(true).
startMediaRejectedUnflagged(w) ==
    [w EXCEPT !.state.permissionsGranted = FALSE,
              !.state.showPermissionWarning = TRUE,
              !.state.permissionsLoading = FALSE]

\* useProctoring.ts lines 221-233: getUserMedia rejected.
startMediaRejected(w) ==
    [w EXCEPT !.state.permissionsGranted = FALSE,
              !.state.showPermissionWarning = TRUE,
              !.state.permissionsLoading = FALSE,
              !.state.permissionViolated = TRUE]

\* ---------------------------------------------------- fullscreen enforcer
\* useProctoring.ts lines 236-240: enterFullscreen up to the await. Requests
\* that overlap are settled by the platform together.
enterFullscreen(w) == [w EXCEPT !.fsPending = TRUE]

\* enterFullscreenResolved without setShowFullscreenWarning(false).
enterFullscreenResolvedKeepsWarning(w) ==
    [w EXCEPT !.state.isFullscreen = TRUE]

\* useProctoring.ts lines 240-241: the continuation after requestFullscreen
\* resolved.
enterFullscreenResolved(w) ==
    [w EXCEPT !.state.isFullscreen = TRUE, !.state.showFullscreenWarning = FALSE]

\* enterFullscreenRejected that also takes the warning down.
enterFullscreenRejectedClearsWarning(w) ==
    [w EXCEPT !.fsPending = FALSE, !.state.showFullscreenWarning = FALSE]

\* useProctoring.ts lines 243-245: requestFullscreen rejected; the catch
\* block logs the error.
enterFullscreenRejected(w) == [w EXCEPT !.fsPending = FALSE]

\* ------------------------------------------------------- violation ledger
\* Notice with the test of the total first: a write that brings the total to
\* the limit announces the invalidation whatever the counter's new value.
NoticeTotalFirst(newCount, currentTotalViolations) ==
    IF currentTotalViolations >= ViolationLimit THEN "Exam Invalidated"
    ELSE IF newCount = 1 THEN "1st violation"
    ELSE IF newCount = 2 THEN "2nd violation"
    ELSE "none"

\* useProctoring.ts lines 261-279 and 308-326: the notice a violation write
\* emits, from the written counter's new value and the total it computed.
Notice(newCount, currentTotalViolations) ==
    IF newCount = 1 THEN "1st violation"
    ELSE IF newCount = 2 THEN "2nd violation"
    ELSE IF currentTotalViolations >= ViolationLimit THEN "Exam Invalidated"
    ELSE "none"

\* recordTabSwitch with setTabSwitchCount(tabSwitchCount + 1): the write reads
\* the counter of the render that registered the handler.
recordTabSwitchStale(w) ==
    LET newCount == w.rendered.tabSwitchCount + 1
        currentTotalViolations == newCount + w.rendered.fullscreenExitCount
    IN  [w EXCEPT !.state.tabSwitchCount = newCount,
                  !.state.violationLog = Append(@, "tab-switch"),
                  !.notices = Append(@, [type |-> "tab-switch",
                                         notice |-> Notice(newCount, currentTotalViolations),
                                         total |-> currentTotalViolations])]

\* useProctoring.ts lines 252-282: the updater of tabSwitchCount. prev is the
\* latest value of the cell; fullscreenExitCount is the value the render that
\* registered the handler saw.
recordTabSwitch(w) ==
    LET newCount == w.state.tabSwitchCount + 1
        currentTotalViolations == newCount + w.rendered.fullscreenExitCount
    IN  [w EXCEPT !.state.tabSwitchCount = newCount,
                  !.state.violationLog = Append(@, "tab-switch"),
                  !.notices = Append(@, [type |-> "tab-switch",
                                         notice |-> Notice(newCount, currentTotalViolations),
                                         total |-> currentTotalViolations])]

\* recordFullscreenExit without the setViolationLog call.
recordFullscreenExitUnlogged(w) ==
    LET newCount == w.state.fullscreenExitCount + 1
        currentTotalViolations == w.rendered.tabSwitchCount + newCount
    IN  [w EXCEPT !.state.fullscreenExitCount = newCount,
                  !.notices = Append(@, [type |-> "fullscreen-exit",
                                         notice |-> Notice(newCount, currentTotalViolations),
                                         total |-> currentTotalViolations])]

\* useProctoring.ts lines 299-329: the updater of fullscreenExitCount.
recordFullscreenExit(w) ==
    LET newCount == w.state.fullscreenExitCount + 1
        currentTotalViolations == w.rendered.tabSwitchCount + newCount
    IN  [w EXCEPT !.state.fullscreenExitCount = newCount,
                  !.state.violationLog = Append(@, "fullscreen-exit"),
                  !.notices = Append(@, [type |-> "fullscreen-exit",
                                         notice |-> Notice(newCount, currentTotalViolations),
                                         total |-> currentTotalViolations])]

\* handleVisibilityChange without the isSubmitted condition.
handleVisibilityChangeAfterSubmit(w, documentHidden) ==
    IF documentHidden /\ w.rendered.permissionsGranted
    THEN recordTabSwitch(w)
    ELSE w

\* handleVisibilityChange without the permissionsGranted condition.
handleVisibilityChangeAnyPermission(w, documentHidden) ==
    IF documentHidden /\ ~w.rendered.isSubmitted
    THEN recordTabSwitch(w)
    ELSE w

\* useProctoring.ts lines 250-284. documentHidden is document.hidden when the
\* event is handled; isSubmitted and permissionsGranted are the values of the
\* render that registered the handler.
handleVisibilityChange(w, documentHidden) ==
    IF documentHidden /\ ~w.rendered.isSubmitted /\ w.rendered.permissionsGranted
    THEN recordTabSwitch(w)
    ELSE w

\* handleFullscreenChange without the isSubmitted condition.
handleFullscreenChangeAfterSubmit(w) ==
    LET isCurrentlyFullscreen == w.fullscreenElement
        w1 == [w EXCEPT !.state.isFullscreen = isCurrentlyFullscreen]
    IN  IF ~isCurrentlyFullscreen /\ w.rendered.permissionsGranted
        THEN recordFullscreenExit([w1 EXCEPT !.state.showFullscreenWarning = TRUE])
        ELSE w1

\* useProctoring.ts lines 292-331.
handleFullscreenChange(w) ==
    LET isCurrentlyFullscreen == w.fullscreenElement
        w1 == [w EXCEPT !.state.isFullscreen = isCurrentlyFullscreen]
    IN  IF ~isCurrentlyFullscreen /\ ~w.rendered.isSubmitted /\ w.rendered.permissionsGranted
        THEN recordFullscreenExit([w1 EXCEPT !.state.showFullscreenWarning = TRUE])
        ELSE w1

\* ------------------------------------------------- frame capture pipeline
\* captureEffect with a cleanup that removes the listener and leaves the
\* interval running.
captureEffectKeepsInterval(w) ==
    LET w1 == [w EXCEPT !.capture.listener = FALSE,
                        !.capture.hasStartedCapture = FALSE]
    IN  IF ~w.state.permissionsGranted \/ w.isSubmitted \/ ~w.video.mounted
        THEN w1
        ELSE [w1 EXCEPT !.capture.listener = TRUE]

\* useProctoring.ts lines 385-420: the capture effect, its cleanup first and
\* then its body. The listener is put on the element videoRef holds.
captureEffect(w) ==
    LET w1 == [w EXCEPT !.capture = [listener |-> FALSE, hasStartedCapture |-> FALSE,
                                     active |-> FALSE]]
    IN  IF ~w.state.permissionsGranted \/ w.isSubmitted \/ ~w.video.mounted
        THEN w1
        ELSE [w1 EXCEPT !.capture.listener = TRUE]

\* useProctoring.ts lines 393-412: handleLoadedData and startImageCapture.
handleLoadedData(w) ==
    IF w.capture.listener /\ ~w.capture.hasStartedCapture
    THEN [w EXCEPT !.capture.hasStartedCapture = TRUE, !.capture.active = TRUE]
    ELSE w

\* useProctoring.ts lines 77-101: captureImage returns a frame only when the
\* element exists and its readyState is 4 (HAVE_ENOUGH_DATA).
captureImage(w) == w.video.mounted /\ w.video.ready

\* sendImageToBackend with an id built anew for the upload instead of the
\* id of the sessionId cell.
sendImageToBackendFreshId(w) ==
    [w EXCEPT !.frames = Append(@, [phase |-> "inflight", retryCount |-> 0,
                                    sessionId |-> CHOOSE id \in SessionIds : id /= w.sessionId,
                                    questionIndex |-> w.rendered.currentQuestionIndex])]

\* useProctoring.ts lines 103-127: sendImageToBackend(imageData) issues the
\* first request for a new frame. The payload carries the sessionId and the
\* currentQuestionIndex of the render that created the function (line 142);
\* the interval calls the function of the render whose effect started it.
sendImageToBackend(w) ==
    [w EXCEPT !.frames = Append(@, [phase |-> "inflight", retryCount |-> 0,
                                    sessionId |-> w.sessionId,
                                    questionIndex |-> w.rendered.currentQuestionIndex])]

\* captureTick that treats a frame it could not capture as a failed upload:
\* it counts a failure.
captureTickCountsSkip(w) ==
    IF captureImage(w)
    THEN sendImageToBackend(w)
    ELSE [w EXCEPT !.captureWarning = "Failed to capture image from video feed",
                   !.state.imageCaptureFailures = @ + 1]

\* useProctoring.ts lines 399-406: the callback of the capture interval.
captureTick(w) ==
    IF captureImage(w)
    THEN sendImageToBackend(w)
    ELSE [w EXCEPT !.captureWarning = "Failed to capture image from video feed"]

\* deliverySucceeded without setImageCaptureFailures(0).
deliverySucceededNoReset(w, f) ==
    [w EXCEPT !.frames[f].phase = "delivered"]

\* useProctoring.ts lines 129-133: the response of frame f's request is 2xx.
deliverySucceeded(w, f) ==
    [w EXCEPT !.state.imageCaptureFailures = 0,
              !.frames[f].phase = "delivered"]

\* deliveryFailed with the retry test off by one (retryCount <= 2).
deliveryFailedOneMore(w, f) ==
    [w EXCEPT !.state.imageCaptureFailures = @ + 1,
              !.frames[f].phase = IF w.frames[f].retryCount <= MaxRetries
                                  THEN "timer" ELSE "dropped"]

\* useProctoring.ts lines 134-141: the request of frame f failed.
deliveryFailed(w, f) ==
    [w EXCEPT !.state.imageCaptureFailures = @ + 1,
              !.frames[f].phase = IF w.frames[f].retryCount < MaxRetries
                                  THEN "timer" ELSE "dropped"]

\* useProctoring.ts line 139: the retry timer of frame f fires and calls
\* sendImageToBackend(imageData, retryCount + 1).
retryFired(w, f) ==
    [w EXCEPT !.frames[f].phase = "inflight", !.frames[f].retryCount = @ + 1]

\* ------------------------------------------------------- clipboard guard
\* The events the clipboard effect listens to (useProctoring.ts lines 372-375).
ClipboardEvents == {"copy", "paste", "cut", "contextmenu"}

\* handleClipboard treating the attempt as a violation of the session: it
\* also sets the sticky permissionViolated flag.
handleClipboardFlagging(w, event) ==
    [w EXCEPT !.suppressed = event, !.state.permissionViolated = TRUE]

\* useProctoring.ts lines 343-370: handleCopy, handlePaste, handleCut and
\* handleContextMenu call e.preventDefault() and show a toast.
handleClipboard(w, event) == [w EXCEPT !.suppressed = event]

\* ------------------------------------------------------ integrity report
\* No item is stored under the session's key.
NoReport == [written |-> FALSE]

\* The scores a consumer passes to exportViolationLog: none, 0, a positive
\* one, as the JSON text of the value.
Scores == {"undefined", "0", "2"}

\* exportViolationLog with permissionViolated taken from the wrong flag
\* (permissionsGranted).
exportViolationLogWrongFlag(w, score) ==
    LET r == w.rendered
    IN  [w EXCEPT !.report =
                      [written |-> TRUE,
                       key |-> w.sessionId,
                       sessionId |-> w.sessionId,
                       totalViolations |-> r.tabSwitchCount + r.fullscreenExitCount,
                       tabSwitchCount |-> r.tabSwitchCount,
                       fullscreenExitCount |-> r.fullscreenExitCount,
                       violationLog |-> r.violationLog,
                       permissionViolated |-> r.permissionsGranted,
                       quizCompleted |-> r.isSubmitted,
                       score |-> IF score \in {"undefined", "0"} THEN "null" ELSE score],
                  !.exportCount = @ + 1]

\* exportViolationLog with totalViolations taken from the tab switches alone.
exportViolationLogTabsOnly(w, score) ==
    LET r == w.rendered
    IN  [w EXCEPT !.report =
                      [written |-> TRUE,
                       key |-> w.sessionId,
                       sessionId |-> w.sessionId,
                       totalViolations |-> r.tabSwitchCount,
                       tabSwitchCount |-> r.tabSwitchCount,
                       fullscreenExitCount |-> r.fullscreenExitCount,
                       violationLog |-> r.violationLog,
                       permissionViolated |-> r.permissionViolated,
                       quizCompleted |-> r.isSubmitted,
                       score |-> IF score \in {"undefined", "0"} THEN "null" ELSE score],
                  !.exportCount = @ + 1]

\* useProctoring.ts lines 144-168. The function is created by a render
\* (useCallback, line 168) and reads the counters, the log and the flags of
\* that render; score || null turns a missing score and a score of 0 into
\* null. setItem replaces the item stored under the session's key; key is the
\* id in the name of the item, sessionId the id in its body.
exportViolationLog(w, score) ==
    LET r == w.rendered
    IN  [w EXCEPT !.report =
                      [written |-> TRUE,
                       key |-> w.sessionId,
                       sessionId |-> w.sessionId,
                       totalViolations |-> r.tabSwitchCount + r.fullscreenExitCount,
                       tabSwitchCount |-> r.tabSwitchCount,
                       fullscreenExitCount |-> r.fullscreenExitCount,
                       violationLog |-> r.violationLog,
                       permissionViolated |-> r.permissionViolated,
                       quizCompleted |-> r.isSubmitted,
                       score |-> IF score \in {"undefined", "0"} THEN "null" ELSE score],
                  !.exportCount = @ + 1]

\* ------------------------------------------------------------ quiz flow
\* handleSubmit with the violation check off by one (totalViolations > 3).
handleSubmitOffByOne(w) ==
    LET r == w.rendered
        total == r.tabSwitchCount + r.fullscreenExitCount
    IN  IF total > ViolationLimit
        THEN [w EXCEPT !.submitToast = "Blocked: violations"]
        ELSE IF r.permissionViolated
        THEN [w EXCEPT !.submitToast = "Blocked: permission violated"]
        ELSE IF ~r.permissionsGranted
        THEN [w EXCEPT !.submitToast = "Blocked: permissions inactive"]
        ELSE [cleanupMedia([w EXCEPT !.isSubmitted = TRUE])
                  EXCEPT !.submitToast = "Quiz Submitted"]

\* handleSubmit with the two permission checks in the other order.
handleSubmitReordered(w) ==
    LET r == w.rendered
        total == r.tabSwitchCount + r.fullscreenExitCount
    IN  IF total >= ViolationLimit
        THEN [w EXCEPT !.submitToast = "Blocked: violations"]
        ELSE IF ~r.permissionsGranted
        THEN [w EXCEPT !.submitToast = "Blocked: permissions inactive"]
        ELSE IF r.permissionViolated
        THEN [w EXCEPT !.submitToast = "Blocked: permission violated"]
        ELSE [cleanupMedia([w EXCEPT !.isSubmitted = TRUE])
                  EXCEPT !.submitToast = "Quiz Submitted"]

\* Quiz.tsx lines 344-394. The function is created by a render and reads the
\* counters and flags of that render. The control that calls it exists only
\* once the questions are loaded (Quiz.tsx lines 416-440), so the early return
\* of line 343 is not taken.
handleSubmit(w) ==
    LET r == w.rendered
        total == r.tabSwitchCount + r.fullscreenExitCount
    IN  IF total >= ViolationLimit
        THEN [w EXCEPT !.submitToast = "Blocked: violations"]
        ELSE IF r.permissionViolated
        THEN [w EXCEPT !.submitToast = "Blocked: permission violated"]
        ELSE IF ~r.permissionsGranted
        THEN [w EXCEPT !.submitToast = "Blocked: permissions inactive"]
        ELSE [cleanupMedia([w EXCEPT !.isSubmitted = TRUE])
                  EXCEPT !.submitToast = "Quiz Submitted"]

\* Proctor.tsx lines 125-145 (Quiz.tsx lines 523-542): the number of
\* remaining warnings the fullscreen warning overlay shows, from the counters
\* of the render r.
remainingWarnings(r) == ViolationLimit - (r.tabSwitchCount + r.fullscreenExitCount)

\* ------------------------------------------------------------- rendering
\* A render commits: the refs of the rendered elements are set, then the
\* effects whose dependencies changed run (useProctoring.ts lines 333-339 and
\* 385-420), and the closures of this render replace those of the last one.
\* sendImageToBackend is a dependency of the capture effect (line 420) and a
\* new function whenever currentQuestionIndex changed (line 142).
Commit(w) ==
    LET old == w.rendered
        new == Snapshot(w)
        w1 == [w EXCEPT !.rendered = new,
                        !.video = IF VideoRendered(w)
                                  THEN [@ EXCEPT !.mounted = TRUE]
                                  ELSE [mounted |-> FALSE, src |-> 0, loaded |-> FALSE,
                                        ready |-> FALSE],
                        !.capture.listener = @ /\ VideoRendered(w)]
        fsDeps == \/ new.permissionsGranted /= old.permissionsGranted
                  \/ new.isSubmitted /= old.isSubmitted
                  \/ new.tabSwitchCount /= old.tabSwitchCount
        w2 == IF fsDeps /\ new.permissionsGranted /\ ~new.isSubmitted
              THEN enterFullscreen(w1)
              ELSE w1
        captureDeps == \/ new.permissionsGranted /= old.permissionsGranted
                       \/ new.isSubmitted /= old.isSubmitted
                       \/ new.currentQuestionIndex /= old.currentQuestionIndex
    IN  IF captureDeps THEN captureEffect(w2) ELSE w2

RenderPending(w) ==
    w.rendered /= Snapshot(w) \/ w.video.mounted /= VideoRendered(w)

\* ------------------------------------------------------------------ Init
Init ==
    /\ state = InitialState
    /\ isSubmitted = FALSE
    /\ mounted = FALSE
    /\ consumer \in {"Proctor", "AlwaysMounted"}
    /\ apiSupported \in BOOLEAN
    /\ streams = <<>>
    /\ streamRef = 0
    /\ polls = <<>>
    /\ intervalRef = 0
    /\ mediaRequests = <<>>
    /\ fullscreenElement = FALSE
    /\ fsPending = FALSE
    /\ video = [mounted |-> consumer /= "Proctor", src |-> 0, loaded |-> FALSE,
                ready |-> FALSE]
    /\ capture = [listener |-> FALSE, hasStartedCapture |-> FALSE, active |-> FALSE]
    /\ frames = <<>>
    /\ notices = <<>>
    /\ submitToast = "none"
    /\ rendered = [permissionsGranted |-> FALSE, permissionsLoading |-> TRUE,
                   showPermissionWarning |-> FALSE, permissionViolated |-> FALSE,
                   browserSupported |-> TRUE, showFullscreenWarning |-> FALSE,
                   tabSwitchCount |-> 0, fullscreenExitCount |-> 0,
                   violationLog |-> <<>>, isSubmitted |-> FALSE,
                   currentQuestionIndex |-> 0]
    /\ report = NoReport
    /\ exportCount = 0
    /\ currentQuestionIndex = 0
    /\ sessionId \in SessionIds
    /\ suppressed = "none"
    /\ captureWarning = "none"

\* --------------------------------------------------------------- actions
\* Proctor.tsx lines 18-23: the mount effect calls startMedia of the first
\* render.
Mount ==
    /\ ~mounted
    /\ Become([startMedia(World, rendered.isSubmitted) EXCEPT !.mounted = TRUE])

\* Proctor.tsx lines 105-113: the user clicks Grant Permissions on the
\* permission overlay (shown by lines 37 and 62).
GrantPermissionsClick ==
    /\ mounted
    /\ ~RenderPending(World)
    /\ ~rendered.permissionsLoading
    /\ rendered.showPermissionWarning /\ ~rendered.showFullscreenWarning
    /\ rendered.browserSupported
    /\ Len(streams) + Len(mediaRequests) < MaxStreams
    /\ Become(Commit(startMedia(World, rendered.isSubmitted)))

\* getUserMedia resolves with a stream.
MediaResolves ==
    /\ mediaRequests /= <<>>
    /\ Become(startMediaResolved([World EXCEPT !.mediaRequests = Tail(@)],
                                 Head(mediaRequests)))

\* getUserMedia rejects (denied, busy, no device).
MediaRejects ==
    /\ mediaRequests /= <<>>
    /\ Become(startMediaRejected([World EXCEPT !.mediaRequests = Tail(@)]))

\* useProctoring.ts line 219: a tick of the liveness poll i.
ValidateTick(i) ==
    /\ polls[i].active
    /\ Become(validateTracks(World, polls[i].isSubmitted))

\* The platform ends a track of stream i (device unplugged, access revoked).
TrackEnds(i, kind) ==
    /\ streams[i][kind]
    /\ Become([World EXCEPT !.streams[i][kind] = FALSE])

\* The page is backgrounded (documentHidden) or foregrounded: visibilitychange.
\* Nothing else reads document.hidden, so it is an input of the event.
VisibilityChange(documentHidden) ==
    LET w == handleVisibilityChange(World, documentHidden)
    IN  /\ mounted
        /\ Len(w.state.violationLog) <= MaxViolations
        /\ Become(w)

\* Fullscreen is left (by the user, or by document.exitFullscreen() of
\* Quiz.tsx line 387): fullscreenchange, a discrete event.
FullscreenExit ==
    LET w == handleFullscreenChange([World EXCEPT !.fullscreenElement = FALSE])
    IN  /\ mounted
        /\ fullscreenElement
        /\ Len(w.state.violationLog) <= MaxViolations
        /\ Become(Commit(w))

\* requestFullscreen() resolves: fullscreenchange, then the continuation of
\* enterFullscreen.
FullscreenGranted ==
    /\ fsPending
    /\ Become(enterFullscreenResolved(Commit(handleFullscreenChange(
           [World EXCEPT !.fsPending = FALSE, !.fullscreenElement = TRUE]))))

\* requestFullscreen() rejects: useProctoring.ts lines 243-245.
FullscreenRejected ==
    /\ fsPending
    /\ Become(enterFullscreenRejected(World))

\* Proctor.tsx lines 149-155: the user clicks Re-enter Fullscreen on the
\* fullscreen overlay.
ReenterFullscreenClick ==
    /\ mounted
    /\ ~RenderPending(World)
    /\ ~rendered.permissionsLoading
    /\ rendered.showFullscreenWarning
    /\ ~fsPending
    /\ Become(Commit(enterFullscreen(World)))

\* Quiz.tsx lines 416 and 609-619: the submit control exists once the loading
\* screen is gone and while the quiz is not submitted; it calls handleSubmit.
SubmitAttempt ==
    /\ mounted
    /\ ~RenderPending(World)
    /\ ~rendered.permissionsLoading
    /\ ~rendered.isSubmitted
    /\ Become(Commit(handleSubmit(World)))

\* The consumer calls actions.cleanupMedia (Proctor.tsx line 21).
CleanupMedia ==
    /\ mounted
    /\ Become(cleanupMedia(World))

\* The consumer calls actions.exportViolationLog(score) (useProctoring.ts
\* lines 439-444, handed out by Proctor.tsx lines 25-27), from a handler or an
\* effect of the last render.
ExportViolationLog(score) ==
    /\ mounted
    /\ ~RenderPending(World)
    /\ exportCount < MaxExports
    /\ Become(exportViolationLog(World, score))

\* The parent of Proctor passes isSubmitted = true (Proctor.tsx lines 10-16),
\* set in a click handler of its own. Proctor tears the media down only when
\* it unmounts (lines 18-23).
SubmittedProp ==
    /\ mounted
    /\ ~RenderPending(World)
    /\ ~rendered.permissionsLoading
    /\ ~rendered.isSubmitted
    /\ Become(Commit([World EXCEPT !.isSubmitted = TRUE]))

\* The preview element has loaded the first frame of its stream: loadeddata,
\* fired at readyState HAVE_CURRENT_DATA (2) or above.
LoadedData ==
    /\ video.mounted /\ video.src /= 0 /\ ~video.loaded
    /\ streams[video.src].video
    /\ Become(handleLoadedData([World EXCEPT !.video.loaded = TRUE]))

\* useProctoring.ts lines 399-406: a tick of the capture interval.
CaptureTick ==
    LET w == captureTick(World)
    IN  /\ capture.active
        /\ Len(w.frames) <= MaxFrames
        /\ Become(w)

\* The preview element's readyState reaches HAVE_ENOUGH_DATA (4) or falls
\* below it (the decoder has run out of data).
ReadyStateChange ==
    /\ video.mounted /\ video.loaded
    /\ Become([World EXCEPT !.video.ready = ~@])

\* The upload of frame f is answered with a 2xx status.
DeliverySucceeds(f) ==
    /\ frames[f].phase = "inflight"
    /\ Become(deliverySucceeded(World, f))

\* The upload of frame f fails (network error or non-2xx status).
DeliveryFails(f) ==
    /\ frames[f].phase = "inflight"
    /\ Become(deliveryFailed(World, f))

\* The 2-second retry timer of frame f fires.
RetryFires(f) ==
    /\ frames[f].phase = "timer"
    /\ Become(retryFired(World, f))

\* Quiz.tsx lines 330-340 and 605-625: the user clicks Next or Previous; the
\* parent renders and hands the hook the new currentQuestionIndex.
QuestionChange(next) ==
    /\ mounted
    /\ ~RenderPending(World)
    /\ ~rendered.permissionsLoading
    /\ IF next
       THEN currentQuestionIndex < NumQuestions - 1
       ELSE currentQuestionIndex > 0
    /\ Become(Commit([World EXCEPT !.currentQuestionIndex =
                                       IF next THEN @ + 1 ELSE @ - 1]))

\* The user copies, cuts, pastes or opens the context menu: the document's
\* copy, cut, paste or contextmenu event.
ClipboardEvent(event) ==
    /\ mounted
    /\ Become(handleClipboard(World, event))

\* React renders the updates dispatched outside discrete events.
Render ==
    /\ RenderPending(World)
    /\ Become(Commit(World))

\* The session of the Proctor component: permission supervision, fullscreen
\* enforcement, tab-switch detection, the ledger and the submit gate.
Next ==
    \/ Mount
    \/ GrantPermissionsClick
    \/ MediaResolves
    \/ MediaRejects
    \/ \E i \in 1..Len(polls) : ValidateTick(i)
    \/ \E i \in 1..Len(streams) : \E kind \in {"video", "audio"} : TrackEnds(i, kind)
    \/ \E documentHidden \in BOOLEAN : VisibilityChange(documentHidden)
    \/ FullscreenExit
    \/ FullscreenGranted
    \/ FullscreenRejected
    \/ ReenterFullscreenClick
    \/ SubmitAttempt
    \/ CleanupMedia
    \/ Render

\* No action of the specifications below reads the session id: one id stands
\* for all.
InitProctor == Init /\ consumer = "Proctor" /\ sessionId = "session-1"

Spec == InitProctor /\ [][Next]_vars

\* The hook under the Proctor component and a parent that is not part of the
\* repository: it passes the isSubmitted prop and calls the actions the hook
\* hands out.
NextProctor ==
    \/ Mount
    \/ GrantPermissionsClick
    \/ MediaResolves
    \/ MediaRejects
    \/ \E i \in 1..Len(polls) : ValidateTick(i)
    \/ \E i \in 1..Len(streams) : \E kind \in {"video", "audio"} : TrackEnds(i, kind)
    \/ \E documentHidden \in BOOLEAN : VisibilityChange(documentHidden)
    \/ FullscreenExit
    \/ FullscreenGranted
    \/ FullscreenRejected
    \/ ReenterFullscreenClick
    \/ SubmittedProp
    \/ CleanupMedia
    \/ Render

ProctorSpec == InitProctor /\ [][NextProctor]_vars

\* The ledger, the submit handler and the integrity report: a session whose
\* media stays granted, with a consumer that calls exportViolationLog.
NextExport ==
    \/ Mount
    \/ MediaResolves
    \/ \E documentHidden \in BOOLEAN : VisibilityChange(documentHidden)
    \/ FullscreenExit
    \/ FullscreenGranted
    \/ FullscreenRejected
    \/ ReenterFullscreenClick
    \/ SubmitAttempt
    \/ \E score \in Scores : ExportViolationLog(score)
    \/ \E event \in ClipboardEvents : ClipboardEvent(event)
    \/ Render

InitExport ==
    Init /\ consumer = "Proctor" /\ apiSupported = TRUE /\ sessionId = "session-1"

ExportSpec == InitExport /\ [][NextExport]_vars

\* The frame capture pipeline of the hook under a consumer that keeps the
\* preview element mounted, with the permission supervision, the submit gate
\* and the teardown that start and stop it.
NextCapture ==
    \/ Mount
    \/ GrantPermissionsClick
    \/ MediaResolves
    \/ MediaRejects
    \/ \E i \in 1..Len(polls) : ValidateTick(i)
    \/ \E i \in 1..Len(streams) : \E kind \in {"video", "audio"} : TrackEnds(i, kind)
    \/ SubmitAttempt
    \/ CleanupMedia
    \/ LoadedData
    \/ CaptureTick
    \/ \E f \in 1..Len(frames) : DeliverySucceeds(f)
    \/ \E f \in 1..Len(frames) : DeliveryFails(f)
    \/ \E f \in 1..Len(frames) : RetryFires(f)
    \/ ReadyStateChange
    \/ Render

InitCapture ==
    Init /\ consumer = "AlwaysMounted" /\ apiSupported = TRUE /\ sessionId = "session-1"

CaptureSpec == InitCapture /\ [][NextCapture]_vars

\* One session from its first acquisition on, media granted throughout: the
\* user moves between the questions while frames are captured and uploaded,
\* and the consumer exports reports.
NextSession ==
    \/ Mount
    \/ MediaResolves
    \/ LoadedData
    \/ ReadyStateChange
    \/ CaptureTick
    \/ \E f \in 1..Len(frames) : DeliverySucceeds(f)
    \/ \E f \in 1..Len(frames) : DeliveryFails(f)
    \/ \E f \in 1..Len(frames) : RetryFires(f)
    \/ \E next \in BOOLEAN : QuestionChange(next)
    \/ \E score \in Scores : ExportViolationLog(score)
    \/ Render

InitSession == Init /\ consumer = "AlwaysMounted" /\ apiSupported = TRUE

SessionSpec == InitSession /\ [][NextSession]_vars

\* ------------------------------------------------------------------ claims
\* The number of entries of one kind in a violation log.
RECURSIVE CountOf(_, _)
CountOf(log, kind) ==
    IF log = <<>> THEN 0
    ELSE (IF Head(log) = kind THEN 1 ELSE 0) + CountOf(Tail(log), kind)

\* C1: in every reachable state tabSwitchCount is the number of 'tab-switch'
\* entries of violationLog, fullscreenExitCount the number of
\* 'fullscreen-exit' entries, and totalViolations the length of the log.
C1_CountersMatchLog ==
    /\ state.tabSwitchCount = CountOf(state.violationLog, "tab-switch")
    /\ state.fullscreenExitCount = CountOf(state.violationLog, "fullscreen-exit")
    /\ totalViolations(state) = Len(state.violationLog)

\* C1 witness: violations of both kinds have been recorded.
C1_Witness ==
    /\ state.tabSwitchCount = 2
    /\ state.fullscreenExitCount = 2

\* C2: after N violation events that the handlers accepted (each emitted its
\* notice), of mixed kinds and in any interleaving with renders,
\* totalViolations is N: every event incremented a counter exactly once.
C2_NoLostIncrement ==
    /\ totalViolations(state) = Len(notices)
    /\ state.tabSwitchCount = Cardinality({i \in 1..Len(notices) : notices[i].type = "tab-switch"})
    /\ state.fullscreenExitCount =
           Cardinality({i \in 1..Len(notices) : notices[i].type = "fullscreen-exit"})

\* C2 witness: two tab switches and a fullscreen exit were handled
\* back-to-back, none of them rendered before the next (the total the third
\* handler computed missed the first two), and all three are counted.
C2_Witness ==
    /\ Len(notices) = 3
    /\ notices[1].type = "tab-switch"
    /\ notices[2].type = "tab-switch"
    /\ notices[3].type = "fullscreen-exit"
    /\ notices[3].total = 1
    /\ totalViolations(state) = 3

\* C3: totalViolations never decreases, and from the state in which it has
\* reached 3 on, no step submits the quiz and every submit attempt is refused
\* with the violation-count reason.
C3_BlockedForever ==
    [][/\ totalViolations(state') >= totalViolations(state)
       /\ totalViolations(state) >= ViolationLimit =>
              /\ isSubmitted' = FALSE
              /\ submitToast' \in {"none", "Blocked: violations"}]_vars

\* C3 witness: a submit attempt is refused for the violation count after a
\* permission re-grant and a violation recorded beyond the third.
C3_Witness ==
    /\ submitToast = "Blocked: violations"
    /\ totalViolations(state) > ViolationLimit
    /\ Len(streams) = 2
    /\ state.permissionsGranted

\* C4: a submit attempt sets isSubmitted only if totalViolations < 3,
\* permissionViolated is false and permissionsGranted is true; a refusal names
\* the violation count first, then permissionViolated, then missing permission.
C4_SubmitGate ==
    [][/\ (isSubmitted' /\ ~isSubmitted) =>
              /\ totalViolations(state) < ViolationLimit
              /\ ~state.permissionViolated
              /\ state.permissionsGranted
              /\ submitToast' = "Quiz Submitted"
       /\ submitToast' = "Quiz Submitted" =>
              /\ isSubmitted'
              /\ totalViolations(state) < ViolationLimit
              /\ ~state.permissionViolated
              /\ state.permissionsGranted
       /\ submitToast' = "Blocked: violations" =>
              /\ totalViolations(state) >= ViolationLimit
              /\ isSubmitted' = isSubmitted
       /\ submitToast' = "Blocked: permission violated" =>
              /\ totalViolations(state) < ViolationLimit
              /\ state.permissionViolated
              /\ isSubmitted' = isSubmitted
       /\ submitToast' = "Blocked: permissions inactive" =>
              /\ totalViolations(state) < ViolationLimit
              /\ ~state.permissionViolated
              /\ ~state.permissionsGranted
              /\ isSubmitted' = isSubmitted
       /\ submitToast' \in {"none", "Quiz Submitted", "Blocked: violations",
                            "Blocked: permission violated",
                            "Blocked: permissions inactive"}]_vars

\* C4 witness: an attempt refused for the violation count while the two
\* permission conditions would refuse it as well.
C4_Witness ==
    /\ submitToast = "Blocked: violations"
    /\ state.permissionViolated
    /\ ~state.permissionsGranted

\* C5: permissionViolated is sticky: no step sets it back to false, neither in
\* the latest state nor in what a render sees.
C5_PermissionViolatedSticky ==
    [][/\ state.permissionViolated => state'.permissionViolated
       /\ rendered.permissionViolated => rendered'.permissionViolated]_vars

\* C5 witness: after a loss of permission a user retry succeeded and the poll
\* finds both tracks live, and the flag is still set.
C5_Witness ==
    /\ state.permissionViolated
    /\ rendered.permissionViolated
    /\ state.permissionsGranted
    /\ Len(streams) = 2
    /\ streams[2].video /\ streams[2].audio

\* C6: when the only frame of a session has failed its three delivery
\* attempts, imageCaptureFailures is 1 (it was 0 before the first attempt).
C6_DroppedFrameCountsOnce ==
    (Len(frames) = 1 /\ frames[1].phase = "dropped") => state.imageCaptureFailures = 1

\* C7: a successful delivery of a frame, on the first attempt or on a retry,
\* sets imageCaptureFailures to 0.
C7_SuccessResetsFailures ==
    [][\A f \in 1..Len(frames) :
           (frames[f].phase = "inflight" /\ frames'[f].phase = "delivered")
               => state'.imageCaptureFailures = 0]_vars

\* C7 witness: a frame was delivered on its second retry, after two failures
\* had raised the counter.
C7_Witness ==
    /\ Len(frames) >= 1
    /\ frames[1].phase = "delivered"
    /\ frames[1].retryCount = MaxRetries
    /\ state.imageCaptureFailures = 0

\* C8: after the session has submitted (handleSubmit has called cleanupMedia)
\* a pending retry timer never fires: no frame leaves the timer phase.
C8_NoRetryAfterTeardown ==
    [][\A f \in 1..Len(frames) :
           (isSubmitted /\ frames[f].phase = "timer") => frames'[f].phase = "timer"]_vars

\* Every interval is cleared and every track of every stream is stopped.
AllReleased ==
    /\ \A i \in 1..Len(polls) : ~polls[i].active
    /\ ~capture.active
    /\ \A i \in 1..Len(streams) : ~streams[i].video /\ ~streams[i].audio

\* C9: when cleanupMedia() returns and no startMedia() call is still pending,
\* no liveness poll and no capture interval is active and every track of every
\* stream acquired in the session is stopped.
C9_CleanupReleasesAll ==
    [][(CleanupMedia /\ mediaRequests = <<>>) => AllReleased']_vars

\* C10: the write that brings totalViolations to 3 emits the 'Exam
\* Invalidated' notice, whatever the mix of kinds.
C10_InvalidatedAtThird ==
    Len(notices) >= ViolationLimit => notices[ViolationLimit].notice = "Exam Invalidated"

\* C11: the 'Exam Invalidated' notice is emitted at most once in a session.
C11_InvalidatedAtMostOnce ==
    Cardinality({i \in 1..Len(notices) : notices[i].notice = "Exam Invalidated"}) <= 1

\* C12: the total a violation write classifies its notice from is the total
\* that write produced: the i-th write of a session computes the total i.
C12_NoticeFromFreshTotal ==
    \A i \in 1..Len(notices) : notices[i].total = i

TerminalSettled ==
    /\ \/ rendered.isSubmitted
       \/ rendered.tabSwitchCount + rendered.fullscreenExitCount >= ViolationLimit
    /\ ~RenderPending(World)
    /\ ~fsPending
    /\ mediaRequests = <<>>

\* C14: once a terminal transition of the session has happened and the page
\* has settled, the integrity report has been exported exactly once.
C14_ExportedOncePerTerminal ==
    TerminalSettled => exportCount = 1

\* C15: once the session is submitted, no tick of a liveness poll changes
\* permissionViolated from false to true.
C15_PollQuietAfterSubmit ==
    [][(/\ isSubmitted
        /\ ~state.permissionViolated
        /\ \E i \in 1..Len(polls) : ValidateTick(i))
           => ~state'.permissionViolated]_vars

\* C16: permissionsGranted turns from false to true only in the step in which
\* a startMedia() call resolves, and a startMedia() call is made only by the
\* mount effect or by the user's click on Grant Permissions: no poll tick and
\* no other automatic step recovers the permission or asks for it again.
C16_RecoveryOnlyByRetry ==
    [][/\ (~state.permissionsGranted /\ state'.permissionsGranted) => MediaResolves
       /\ Len(mediaRequests') > Len(mediaRequests) => (Mount \/ GrantPermissionsClick)]_vars

\* C16 witness: the first stream lost a track, the poll withdrew the
\* permission, and a retry of the user has been granted a second stream.
C16_Witness ==
    /\ Len(streams) = 2
    /\ ~streams[1].video
    /\ state.permissionViolated
    /\ state.permissionsGranted
    /\ rendered.permissionsGranted

\* C17: when the devices were denied at the first acquisition (and at every
\* retry since), permissionsGranted is false, the permission warning is
\* raised, permissionViolated is true, no liveness poll exists, the capture
\* effect has neither a listener nor an interval, no frame was sent, and a
\* submit attempt is refused with the permission-violation reason.
C17_DeniedAtStart ==
    (mounted /\ streams = <<>> /\ mediaRequests = <<>>) =>
        /\ ~state.permissionsGranted
        /\ state.showPermissionWarning
        /\ state.permissionViolated
        /\ ~state.permissionsLoading
        /\ polls = <<>> /\ intervalRef = 0
        /\ ~capture.listener /\ ~capture.active
        /\ frames = <<>>
        /\ ~isSubmitted
        /\ submitToast \in {"none", "Blocked: permission violated"}

\* C17 witness: the first request was rejected and a submit attempt has just
\* been refused for the permission violation.
C17_Witness ==
    /\ mounted /\ streams = <<>> /\ mediaRequests = <<>>
    /\ submitToast = "Blocked: permission violated"

\* C18 as stated: a visibility change records a tab-switch violation if and
\* only if the page became hidden, the session is not submitted and
\* permissionsGranted is true, all three at the moment of the event.
C18_TabSwitchIffLive ==
    [][LET recorded == state'.tabSwitchCount /= state.tabSwitchCount
           live == ~isSubmitted /\ state.permissionsGranted
       IN  /\ recorded => (VisibilityChange(TRUE) /\ live)
           /\ (VisibilityChange(TRUE) /\ live) => recorded]_vars

\* C18, amended: a visibility change records a tab-switch violation if and
\* only if the page became hidden and the last committed render saw the
\* session not submitted and permissionsGranted true; it then adds one to
\* tabSwitchCount and one 'tab-switch' entry to the log. Any other visibility
\* change leaves the hook's state unchanged.
C18_TabSwitchIffLiveRender ==
    [][LET recorded == state'.tabSwitchCount /= state.tabSwitchCount
           live == ~rendered.isSubmitted /\ rendered.permissionsGranted
       IN  /\ recorded =>
                  /\ live
                  /\ state'.tabSwitchCount = state.tabSwitchCount + 1
                  /\ state'.violationLog = Append(state.violationLog, "tab-switch")
                  /\ state'.fullscreenExitCount = state.fullscreenExitCount
                  /\ VisibilityChange(TRUE)
           /\ (live /\ ~recorded) => ~VisibilityChange(TRUE)
           /\ (~live /\ state' /= state) => ~VisibilityChange(TRUE)
           /\ state' /= state => ~VisibilityChange(FALSE)]_vars

\* C18 witness: a tab switch was recorded by the handler of a render that saw
\* the permission granted, and is not rendered yet, while the latest value of
\* permissionsGranted is false.
C18_Witness ==
    /\ state.tabSwitchCount = 1
    /\ rendered.tabSwitchCount = 0
    /\ rendered.permissionsGranted /\ ~rendered.isSubmitted
    /\ ~state.permissionsGranted

\* C19 as stated: a fullscreenchange signal records one fullscreen-exit
\* violation and raises showFullscreenWarning if and only if fullscreen is
\* not active, the session is not submitted and permissionsGranted is true,
\* all at the moment of the signal.
C19_FullscreenExitIffLive ==
    [][LET recorded == state'.fullscreenExitCount /= state.fullscreenExitCount
           live == ~isSubmitted /\ state.permissionsGranted
       IN  /\ recorded => (FullscreenExit /\ live)
           /\ (FullscreenExit /\ live) => (recorded /\ state'.showFullscreenWarning)]_vars

\* C19, amended: a fullscreenchange signal that finds fullscreen not active
\* while the last committed render saw the session not submitted and
\* permissionsGranted true raises showFullscreenWarning and records exactly
\* one fullscreen-exit violation; one that finds fullscreen active, or whose
\* render saw the session submitted or the permission missing, records
\* nothing and does not raise the warning.
C19_FullscreenExitIffLiveRender ==
    [][LET recorded == state'.fullscreenExitCount /= state.fullscreenExitCount
           live == ~rendered.isSubmitted /\ rendered.permissionsGranted
           unrecorded == /\ state'.fullscreenExitCount = state.fullscreenExitCount
                         /\ state'.tabSwitchCount = state.tabSwitchCount
                         /\ state'.violationLog = state.violationLog
                         /\ state'.showFullscreenWarning => state.showFullscreenWarning
       IN  /\ recorded =>
                  /\ live
                  /\ state'.fullscreenExitCount = state.fullscreenExitCount + 1
                  /\ state'.violationLog = Append(state.violationLog, "fullscreen-exit")
                  /\ state'.tabSwitchCount = state.tabSwitchCount
                  /\ state'.showFullscreenWarning
                  /\ FullscreenExit
           /\ (live /\ ~recorded) => ~FullscreenExit
           /\ (~live /\ ~unrecorded) => ~FullscreenExit
           /\ ~unrecorded => ~FullscreenGranted]_vars

\* C19 witness: fullscreen was left after the quiz was submitted; nothing was
\* recorded and no warning is shown, after an earlier exit had been recorded.
C19_Witness ==
    /\ isSubmitted /\ rendered.isSubmitted
    /\ ~fullscreenElement /\ ~state.isFullscreen
    /\ ~state.showFullscreenWarning
    /\ state.fullscreenExitCount = 1

\* C20: while the fullscreen warning is up (the user has left fullscreen and
\* not re-entered), requestFullscreen() is called only by the user's click on
\* Re-enter Fullscreen or by the render in which permissionsGranted becomes
\* true; no other change of state requests it.
C20_NoAutomaticReentry ==
    [][(state.showFullscreenWarning /\ ~fsPending /\ fsPending') =>
           \/ ReenterFullscreenClick
           \/ rendered'.permissionsGranted /\ ~rendered.permissionsGranted]_vars

\* C21: while permission is granted, the quiz is not submitted and the
\* preview has produced frames, the capture interval stays active: a change
\* of the current question index leaves the running interval running.
C21_CaptureSurvivesQuestionChange ==
    [][(/\ capture.active
        /\ state.permissionsGranted /\ ~isSubmitted
        /\ video.loaded
        /\ currentQuestionIndex' /= currentQuestionIndex)
           => capture.active']_vars

\* C22 as stated, on the latest values: the capture interval is active only
\* where the preview has signalled loadeddata, permissionsGranted is true and
\* the quiz is not submitted.
C22_CaptureOnlyWhileLive ==
    capture.active =>
        /\ video.loaded /\ capture.hasStartedCapture
        /\ state.permissionsGranted
        /\ ~isSubmitted

\* C22: the capture interval is active only where the preview has signalled
\* loadeddata to the listener of the current effect run and the last committed
\* render saw permissionsGranted = true and isSubmitted = false; the quiz
\* flow's submit clears it in the same step.
C22_CaptureOnlyWhileLiveRender ==
    capture.active =>
        /\ video.loaded /\ capture.hasStartedCapture
        /\ rendered.permissionsGranted
        /\ ~rendered.isSubmitted
        /\ ~isSubmitted

\* C22 witness: the interval had started and produced a frame, the permission
\* was then lost and rendered, and the interval is cleared although the
\* preview's frames are still loaded.
C22_Witness ==
    /\ ~capture.active
    /\ frames /= <<>>
    /\ video.loaded
    /\ ~rendered.permissionsGranted /\ ~state.permissionsGranted
    /\ ~isSubmitted

\* C23: a frame is attempted at most 3 times (the first attempt and two
\* retries); a retry timer is set only by a failed attempt that was the
\* first or the second; a frame that was delivered, or whose third attempt
\* failed, is never attempted again.
C23_AtMostThreeAttempts ==
    [][\A f \in 1..Len(frames') :
           /\ frames'[f].retryCount <= MaxRetries
           /\ f <= Len(frames) =>
                  /\ (frames'[f].phase = "timer" /\ frames[f].phase /= "timer") =>
                         /\ frames[f].phase = "inflight"
                         /\ frames[f].retryCount < MaxRetries
                         /\ state'.imageCaptureFailures = state.imageCaptureFailures + 1
                  /\ frames'[f].retryCount /= frames[f].retryCount =>
                         /\ frames[f].phase = "timer"
                         /\ frames'[f].phase = "inflight"
                         /\ frames'[f].retryCount = frames[f].retryCount + 1
                  /\ (frames'[f].phase = "dropped" /\ frames[f].phase /= "dropped") =>
                         /\ frames[f].phase = "inflight"
                         /\ frames[f].retryCount = MaxRetries
                  /\ frames[f].phase \in {"delivered", "dropped"} =>
                         frames'[f] = frames[f]]_vars

\* C23 witness: a frame was delivered by its third attempt, after two failed
\* attempts and two retries.
C23_Witness ==
    \E f \in 1..Len(frames) :
        /\ frames[f].phase = "delivered"
        /\ frames[f].retryCount = MaxRetries

C25_ClipboardSuppressedOnly ==
    [][\A event \in ClipboardEvents :
           ClipboardEvent(event) =>
               /\ suppressed' = event
               /\ state' = state
               /\ isSubmitted' = isSubmitted
               /\ rendered' = rendered
               /\ notices' = notices
               /\ report' = report
               /\ handleSubmit(World)'.submitToast = handleSubmit(World).submitToast
               /\ handleSubmit(World)'.isSubmitted = handleSubmit(World).isSubmitted]_vars

\* C25 witness: a paste was suppressed in a live session that has two
\* violations on its ledger, which are still two.
C25_Witness ==
    /\ suppressed = "paste"
    /\ state.permissionsGranted /\ ~isSubmitted
    /\ state.tabSwitchCount = 1 /\ state.fullscreenExitCount = 1
    /\ Len(state.violationLog) = 2
    /\ ~state.permissionViolated

\* C26: the sessionId never changes after the hook was constructed, and after
\* every step the payload of every frame upload, the key of the stored report
\* and the body of the stored report carry that sessionId.
C26_OneSessionId ==
    [][/\ sessionId' = sessionId
       /\ \A f \in 1..Len(frames') : frames'[f].sessionId = sessionId
       /\ report'.written => (report'.key = sessionId /\ report'.sessionId = sessionId)]_vars

\* C26 witness: a frame was uploaded and retried and a report was exported
\* twice, on different questions, all under the second of the ids.
C26_Witness ==
    /\ sessionId = "session-2"
    /\ \E f \in 1..Len(frames) :
           /\ frames[f].retryCount > 0
           /\ frames[f].sessionId = "session-2"
    /\ exportCount = 2
    /\ report.written /\ report.key = "session-2" /\ report.sessionId = "session-2"
    /\ currentQuestionIndex = 1

\* C27: on a platform without the capture-device API, once startMedia() has
\* run, browserSupported and permissionsGranted are false and loading has
\* ended, and for the rest of the session no stream is requested or acquired
\* and no poll is started.
C27_UnsupportedIsTerminal ==
    (~apiSupported /\ mounted) =>
        /\ ~state.browserSupported
        /\ ~state.permissionsGranted
        /\ ~state.permissionsLoading
        /\ mediaRequests = <<>>
        /\ streams = <<>> /\ streamRef = 0
        /\ polls = <<>> /\ intervalRef = 0
        /\ ~fsPending

\* C27 witness: on a platform without the API the hook has run startMedia(),
\* the outcome is rendered and a submit attempt has been refused.
C27_Witness ==
    /\ ~apiSupported /\ mounted
    /\ ~rendered.browserSupported /\ ~rendered.permissionsLoading
    /\ submitToast = "Blocked: permissions inactive"

\* C28: in a live session whose only violation is one fullscreen exit, the
\* re-entry into fullscreen leaves fullscreenExitCount = 1 and
\* tabSwitchCount = 0 and takes the fullscreen warning down, and a submit
\* attempt made then, with the permission intact, submits the quiz.
C28_OneExitThenReentry ==
    [][(/\ state.fullscreenExitCount = 1
        /\ state.tabSwitchCount = 0
        /\ ~isSubmitted) =>
           /\ (~fullscreenElement /\ fullscreenElement') =>
                  /\ state'.fullscreenExitCount = 1
                  /\ state'.tabSwitchCount = 0
                  /\ state'.violationLog = <<"fullscreen-exit">>
                  /\ ~state'.showFullscreenWarning
                  /\ state'.isFullscreen
           /\ (/\ fullscreenElement
               /\ state.permissionsGranted /\ ~state.permissionViolated
               /\ SubmitAttempt) =>
                  /\ isSubmitted'
                  /\ submitToast' = "Quiz Submitted"]_vars

\* C28 witness: fullscreen was left once and re-entered, nothing else was
\* recorded, and the submit attempt made in fullscreen was accepted.
C28_Witness ==
    /\ submitToast = "Quiz Submitted"
    /\ isSubmitted
    /\ fullscreenElement /\ state.isFullscreen
    /\ state.fullscreenExitCount = 1
    /\ state.tabSwitchCount = 0
    /\ ~state.showFullscreenWarning

\* C29: in a session in which no violation was recorded and the permission
\* was never lost, a submit attempt made with the permission granted submits
\* the quiz, and a report exported has totalViolations = 0, both counters 0,
\* an empty violationLog and permissionViolated = false.
C29_CleanSessionSubmits ==
    [][(/\ notices = <<>>
        /\ state.violationLog = <<>>
        /\ ~state.permissionViolated) =>
           /\ (state.permissionsGranted /\ SubmitAttempt) =>
                  /\ isSubmitted'
                  /\ submitToast' = "Quiz Submitted"
           /\ exportCount' = exportCount + 1 =>
                  /\ report'.written
                  /\ report'.totalViolations = 0
                  /\ report'.tabSwitchCount = 0
                  /\ report'.fullscreenExitCount = 0
                  /\ report'.violationLog = <<>>
                  /\ ~report'.permissionViolated]_vars

\* C29 witness: a session without any violation was submitted and its report
\* exported after the submission: no violation, an empty log, no permission
\* violation, quiz completed.
C29_Witness ==
    /\ isSubmitted
    /\ notices = <<>>
    /\ report.written
    /\ report.quizCompleted
    /\ report.totalViolations = 0
    /\ report.violationLog = <<>>
    /\ ~report.permissionViolated

\* C30: whenever the session is live (permission granted, quiz not
\* submitted), the page is not in fullscreen, no fullscreen request is
\* pending and every update is rendered, showFullscreenWarning is true; this
\* includes the state after the automatic entry request on permission grant
\* was rejected.
C30_WarningWheneverNotFullscreen ==
    (/\ state.permissionsGranted /\ ~isSubmitted
     /\ ~fullscreenElement
     /\ ~fsPending
     /\ ~RenderPending(World)) => state.showFullscreenWarning

\* C31: after a successful acquisition in the Proctor component, once the
\* outcome is rendered and while the session is live, the stream streamRef
\* holds is the source of the mounted preview element (so that loadeddata can
\* fire and start the capture loop).
C31_StreamBoundToPreview ==
    (/\ state.permissionsGranted /\ ~isSubmitted
     /\ streamRef /= 0
     /\ ~RenderPending(World)) =>
        (video.mounted /\ video.src = streamRef)

\* C32: in every reachable state in which a startMedia() request is pending,
\* if cleanupMedia() is called now and the request then resolves with a
\* stream, no stream with a live track is held and no liveness poll is
\* running.
C32_CleanupCancelsPendingStart ==
    mediaRequests /= <<>> =>
        LET w1 == cleanupMedia(World)
            w2 == startMediaResolved([w1 EXCEPT !.mediaRequests = Tail(@)],
                                     Head(w1.mediaRequests))
        IN  /\ \/ w2.streamRef = 0
               \/ (~w2.streams[w2.streamRef].video /\ ~w2.streams[w2.streamRef].audio)
            /\ \A i \in 1..Len(w2.polls) : ~w2.polls[i].active

\* C33: from the state in which isSubmitted is true on, no step changes
\* tabSwitchCount, fullscreenExitCount or violationLog: not the fullscreen
\* exit the submission triggers, and no visibility change that follows.
C33_LedgerFrozenAfterSubmit ==
    [][isSubmitted =>
           /\ state'.tabSwitchCount = state.tabSwitchCount
           /\ state'.fullscreenExitCount = state.fullscreenExitCount
           /\ state'.violationLog = state.violationLog
           /\ notices' = notices]_vars

\* C33 witness: a quiz with one violation of each kind on its ledger was
\* submitted, fullscreen has been left after the submission, and the ledger
\* still holds the two.
C33_Witness ==
    /\ isSubmitted /\ rendered.isSubmitted
    /\ ~fullscreenElement /\ ~state.isFullscreen
    /\ state.tabSwitchCount = 1 /\ state.fullscreenExitCount = 1
    /\ state.violationLog = <<"tab-switch", "fullscreen-exit">>
    /\ ~state.showFullscreenWarning

\* The teardown has been done: cleanupMedia() would change nothing, and a
\* stream had been acquired.
TornDown ==
    LET w == cleanupMedia(World)
    IN  /\ streams /= <<>>
        /\ w.polls = polls /\ w.capture = capture
        /\ w.streams = streams /\ w.streamRef = streamRef

\* C34: cleanupMedia() changes none of the hook's cells and not the
\* sessionId, and once the teardown is done no tick of a liveness poll and no
\* retry timer of the session changes permissionsGranted, permissionViolated,
\* imageCaptureFailures, the counters, the log or the sessionId.
C34_TeardownLeavesStateAlone ==
    [][/\ cleanupMedia(World).state = state
       /\ cleanupMedia(World).sessionId = sessionId
       /\ (/\ TornDown
           /\ \/ \E i \in 1..Len(polls) : ValidateTick(i)
              \/ \E f \in 1..Len(frames) : RetryFires(f)) =>
              /\ state' = state
              /\ sessionId' = sessionId]_vars

\* C35: in every reachable state in which permissionsLoading is false,
\* showPermissionWarning is the negation of permissionsGranted: after the
\* unsupported, the denied and the granted outcome of startMedia() and after
\* every tick of a liveness poll.
C35_WarningMirrorsPermission ==
    ~state.permissionsLoading =>
        (state.showPermissionWarning <=> ~state.permissionsGranted)

\* C35 witness: after a grant a track ended and a poll tick withdrew the
\* permission: the warning is up and no acquisition is in progress.
C35_Witness ==
    /\ ~state.permissionsLoading
    /\ streamRef /= 0
    /\ ~state.permissionsGranted
    /\ state.showPermissionWarning
    /\ state.permissionViolated

\* C36: the score of the exported report is the score passed to
\* exportViolationLog for every numeric score, 0 included, and null only when
\* none was passed.
C36_ScoreAsPassed ==
    [][\A score \in Scores :
           ExportViolationLog(score) =>
               report'.score = IF score = "undefined" THEN "null" ELSE score]_vars

\* C37: the first recorded violation of a kind emitted the '1st violation'
\* notice and the second recorded violation of the same kind the '2nd
\* violation' notice, whatever number of violations of the other kind was
\* recorded before.
C37_FirstAndSecondNotice ==
    \A i \in 1..Len(notices) :
        LET nth == Cardinality({j \in 1..i : notices[j].type = notices[i].type})
        IN  /\ nth = 1 => notices[i].notice = "1st violation"
            /\ nth = 2 => notices[i].notice = "2nd violation"

\* C37 witness: after two rendered tab switches the first fullscreen exit,
\* the third violation of the session, emitted the '1st violation' notice, and
\* the second fullscreen exit the '2nd violation' notice.
C37_Witness ==
    /\ Len(notices) = 4
    /\ notices[1].type = "tab-switch" /\ notices[2].type = "tab-switch"
    /\ notices[3].type = "fullscreen-exit" /\ notices[3].total = 3
    /\ notices[3].notice = "1st violation"
    /\ notices[4].type = "fullscreen-exit" /\ notices[4].notice = "2nd violation"

\* C38: a rejected request to enter fullscreen records no violation and
\* leaves every cell as it was, isFullscreen and showFullscreenWarning
\* included; a warning overlay that was shown is still shown, with no request
\* pending, so that the user can click Re-enter Fullscreen again.
C38_RejectionContained ==
    [][FullscreenRejected =>
           /\ state' = state
           /\ notices' = notices
           /\ fullscreenElement' = fullscreenElement
           /\ rendered' = rendered
           /\ ~fsPending'
           /\ state.showFullscreenWarning =>
                  (mounted' /\ state'.showFullscreenWarning)]_vars

\* C38 witness: the request made on the permission grant was rejected: the
\* session is live, outside fullscreen, with nothing recorded and no request
\* pending.
C38_Witness ==
    /\ rendered.permissionsGranted /\ ~isSubmitted
    /\ ~fsPending /\ ~fullscreenElement
    /\ ~state.isFullscreen
    /\ totalViolations(state) = 0 /\ notices = <<>>

\* C39: a tick of the capture interval at which the preview is not in the
\* have-enough-data ready state is skipped: it hands no frame to the upload,
\* schedules no retry, leaves imageCaptureFailures and every other cell
\* unchanged and only logs a warning.
C39_NotReadyTickSkipped ==
    [][(capture.active /\ ~captureImage(World) /\ CaptureTick) =>
           /\ frames' = frames
           /\ state' = state
           /\ capture' = capture
           /\ captureWarning' = "Failed to capture image from video feed"]_vars

\* C39 witness: after a frame whose upload failed once, a tick found the
\* preview below the have-enough-data state and was skipped: still one
\* frame, one failure counted, the interval still active.
C39_Witness ==
    /\ captureWarning /= "none"
    /\ capture.active
    /\ video.loaded /\ ~video.ready
    /\ Len(frames) = 1
    /\ frames[1].phase = "timer"
    /\ state.imageCaptureFailures = 1

\* C40: in every reachable state in which the fullscreen warning overlay is
\* shown, the number of remaining warnings it shows, 3 - totalViolations, is
\* not negative.
C40_RemainingWarningsNonNegative ==
    (rendered.showFullscreenWarning /\ ~rendered.permissionsLoading) =>
        remainingWarnings(rendered) >= 0

=============================================================================
